---- MODULE Spec2Model ----
(***************************************************************************)
(* Black holes of Antimatter Dimensions: the chained duty-cycle timers     *)
(* (BlackHoleState), their phase updates (BlackHoles.updatePhases), the    *)
(* closed-form time transform (realTimeWhileActive and the period lists)   *)
(* and the offline tick planner (calculateOfflineTick / binarySearch).     *)
(* Beside them, the virtual time study tree (TimeStudyTree): its           *)
(* construction, attemptBuyArray / canBuySingle and commitToGameState.     *)
(*                                                                         *)
(* Numbers are JavaScript doubles in the source.  Here times are exact:    *)
(* the chain's times are whole seconds, and the planner's bisection works  *)
(* on exact dyadic rationals n / den, evaluated by expressing the chain in *)
(* units of 1 / den second (WithUnit).  Rounding error of doubles is not   *)
(* modelled.                                                               *)
(***************************************************************************)
EXTENDS Integers, Sequences, FiniteSets, TLC

\* ----------------------------------------------------------------- bounds
NumHoles == 3
MaxInterval == 2
MaxDuration == 2
MaxActivations == 2
MaxSeconds == 8
MaxRealTime == 3
MaxTicks == 3
MaxSpeedup == 2
ToleranceBits == 2
MaxTheorems == 4
MaxSpaceTheorems == 1
MaxArray == 1
MaxPurchased == 4
MaxBought == 1

Holes == 1..NumHoles

VARIABLES
  blackHole,        \* player.blackHole: one record per black hole
  blackHolePause,   \* player.blackHolePause
  enslavedRunning,  \* Enslaved.isRunning
  pc,               \* where calculateOfflineTick is: "idle", "search" or "done"
  tick,             \* calculateOfflineTick: its arguments and cached values
  search,           \* binarySearch: start and end, as start / den and end / den,
                    \* and the parity of the passes of its loop made so far
  result,           \* what calculateOfflineTick returned
  game,             \* the game state a TimeStudyTree reads: the bought studies,
                    \* the theorem balances and two unlock flags
  tree              \* a TimeStudyTree object

chainVars == <<blackHole, blackHolePause, enslavedRunning, pc, tick, search, result>>
studyVars == <<game, tree>>
vars == <<blackHole, blackHolePause, enslavedRunning, pc, tick, search, result, game, tree>>

\* ---------------------------------------------------------- BlackHoleState

\* The element of a one-element set.  {e(x) : x \in {v}} is e(v) with v computed
\* once, as a const binding of the code is.
TheOnly(S) == CHOOSE r \in S : TRUE

\* Math.min / Math.max / Math.abs
Min(a, b) == IF a <= b THEN a ELSE b
Max(a, b) == IF a >= b THEN a ELSE b
Abs(a) == IF a >= 0 THEN a ELSE -a

\* The % of JavaScript: the remainder has the sign of the dividend.
JsMod(a, b) == IF a >= 0 THEN a % b ELSE -((-a) % b)

isUnlocked(h) == h.unlocked /\ ~enslavedRunning

isCharged(h) == h.active

cycleLength(h) == h.interval + h.duration

\* Mutant of timeUntilNextDeactivation: an inactive black hole answers with the
\* time until its next activation.
timeUntilNextActivation(h) ==
  IF isCharged(h) THEN h.duration - h.phase ELSE h.interval - h.phase

timeUntilNextDeactivation(h) ==
  IF isCharged(h) THEN h.duration - h.phase ELSE cycleLength(h) - h.phase

\* Mutant of FoldCycles: the full cycles are counted but "phase %= cycleLength"
\* is left out.
FoldCyclesNoWrap(h, activePeriod) ==
  LET p == h.phase + activePeriod
  IN IF p >= cycleLength(h)
       THEN [h EXCEPT !.activations = @ + (p \div cycleLength(h)), !.phase = p]
       ELSE [h EXCEPT !.phase = p]

\* Mutant of FoldCycles: a fold counts one activation, however many full
\* cycles it folds.
FoldCyclesOnce(h, activePeriod) ==
  LET p == h.phase + activePeriod
  IN IF p >= cycleLength(h)
       THEN [h EXCEPT !.activations = @ + 1, !.phase = JsMod(p, cycleLength(h))]
       ELSE [h EXCEPT !.phase = p]

\* updatePhase, first half: add the period and fold the full cycles.
FoldCycles(h, activePeriod) ==
  LET p == h.phase + activePeriod
  IN IF p >= cycleLength(h)
       THEN [h EXCEPT !.activations = @ + (p \div cycleLength(h)),
                      !.phase = JsMod(p, cycleLength(h))]
       ELSE [h EXCEPT !.phase = p]

\* Mutant of CrossBoundary: the activation inside the cycle is not counted.
CrossBoundaryNoCount(h) ==
  IF isCharged(h)
    THEN IF h.phase >= h.duration
           THEN [h EXCEPT !.phase = @ - h.duration, !.active = FALSE]
           ELSE h
    ELSE IF h.phase >= h.interval
           THEN [h EXCEPT !.phase = @ - h.interval, !.active = TRUE]
           ELSE h

\* Mutant of CrossBoundary: a charged black hole past its duration is left
\* charged.
CrossBoundaryNoDeactivate(h) ==
  IF isCharged(h)
    THEN h
    ELSE IF h.phase >= h.interval
           THEN [h EXCEPT !.phase = @ - h.interval,
                          !.activations = @ + 1,
                          !.active = TRUE]
           ELSE h

\* Mutant of CrossBoundary: the deactivation is counted as an activation too.
CrossBoundaryCountBoth(h) ==
  IF isCharged(h)
    THEN IF h.phase >= h.duration
           THEN [h EXCEPT !.phase = @ - h.duration,
                          !.activations = @ + 1,
                          !.active = FALSE]
           ELSE h
    ELSE IF h.phase >= h.interval
           THEN [h EXCEPT !.phase = @ - h.interval,
                          !.activations = @ + 1,
                          !.active = TRUE]
           ELSE h

\* Mutant of CrossBoundary: the flag is toggled at the boundary but the phase
\* keeps counting from the previous transition.
CrossBoundaryKeepPhase(h) ==
  IF isCharged(h)
    THEN IF h.phase >= h.duration
           THEN [h EXCEPT !.active = FALSE]
           ELSE h
    ELSE IF h.phase >= h.interval
           THEN [h EXCEPT !.activations = @ + 1, !.active = TRUE]
           ELSE h

\* updatePhase, second half: at most one boundary inside the cycle.
CrossBoundary(h) ==
  IF isCharged(h)
    THEN IF h.phase >= h.duration
           THEN [h EXCEPT !.phase = @ - h.duration, !.active = FALSE]
           ELSE h
    ELSE IF h.phase >= h.interval
           THEN [h EXCEPT !.phase = @ - h.interval,
                          !.activations = @ + 1,
                          !.active = TRUE]
           ELSE h

updatePhase(h, activePeriod) == CrossBoundary(FoldCycles(h, activePeriod))

\* Mutant of realTimeWhileActive: the cycles are rounded up (Math.ceil).
realTimeWhileActiveCeil(h, time) ==
  LET nextDeactivation == timeUntilNextDeactivation(h)
      cooldown == h.interval
      duration == h.duration
      fullCycle == cycleLength(h)
      currentActivationDuration == Min(nextDeactivation, duration)
      activeCyclesUntilLastDeactivation ==
        -((nextDeactivation - time) \div fullCycle)
      activeTimeUntilLastDeactivation == duration * activeCyclesUntilLastDeactivation
      timeLeftAfterLastDeactivation == JsMod(time - nextDeactivation + fullCycle, fullCycle)
      lastActivationDuration == Max(timeLeftAfterLastDeactivation - cooldown, 0)
  IN currentActivationDuration + activeTimeUntilLastDeactivation + lastActivationDuration

\* Mutant of realTimeWhileActive: currentActivationDuration is left out of the
\* sum.
realTimeWhileActiveNoCurrent(h, time) ==
  LET nextDeactivation == timeUntilNextDeactivation(h)
      cooldown == h.interval
      duration == h.duration
      fullCycle == cycleLength(h)
      activeCyclesUntilLastDeactivation == (time - nextDeactivation) \div fullCycle
      activeTimeUntilLastDeactivation == duration * activeCyclesUntilLastDeactivation
      timeLeftAfterLastDeactivation == JsMod(time - nextDeactivation + fullCycle, fullCycle)
      lastActivationDuration == Max(timeLeftAfterLastDeactivation - cooldown, 0)
  IN activeTimeUntilLastDeactivation + lastActivationDuration

\* Mutant of realTimeWhileActive: the cooldown is not taken off the time left
\* after the last deactivation.
realTimeWhileActiveNoCooldown(h, time) ==
  LET nextDeactivation == timeUntilNextDeactivation(h)
      duration == h.duration
      fullCycle == cycleLength(h)
      currentActivationDuration == Min(nextDeactivation, duration)
      activeCyclesUntilLastDeactivation == (time - nextDeactivation) \div fullCycle
      activeTimeUntilLastDeactivation == duration * activeCyclesUntilLastDeactivation
      timeLeftAfterLastDeactivation == JsMod(time - nextDeactivation + fullCycle, fullCycle)
      lastActivationDuration == Max(timeLeftAfterLastDeactivation, 0)
  IN currentActivationDuration + activeTimeUntilLastDeactivation + lastActivationDuration

realTimeWhileActive(h, time) ==
  LET nextDeactivation == timeUntilNextDeactivation(h)
      cooldown == h.interval
      duration == h.duration
      fullCycle == cycleLength(h)
      currentActivationDuration == Min(nextDeactivation, duration)
      activeCyclesUntilLastDeactivation == (time - nextDeactivation) \div fullCycle
      activeTimeUntilLastDeactivation == duration * activeCyclesUntilLastDeactivation
      timeLeftAfterLastDeactivation == JsMod(time - nextDeactivation + fullCycle, fullCycle)
      lastActivationDuration == Max(timeLeftAfterLastDeactivation - cooldown, 0)
  IN currentActivationDuration + activeTimeUntilLastDeactivation + lastActivationDuration

\* ---------------------------------------------------------------- BlackHoles

areUnlocked(list) == isUnlocked(list[1])

\* The loops "for (const blackHole of this.list) { if (!isUnlocked) break; ..."
\* visit the black holes 1..UnlockedPrefix(list).
RECURSIVE PrefixFrom(_, _)
PrefixFrom(list, i) ==
  IF i > NumHoles \/ ~isUnlocked(list[i]) THEN i - 1 ELSE PrefixFrom(list, i + 1)

UnlockedPrefix(list) == PrefixFrom(list, 1)

RECURSIVE ActiveFrom(_, _, _)
ActiveFrom(list, i, activePeriods) ==
  IF i > NumHoles \/ ~isUnlocked(list[i])
    THEN activePeriods
    ELSE TheOnly({ActiveFrom(list, i + 1, longer) :
                    longer \in {Append(activePeriods,
                                       realTimeWhileActive(list[i],
                                                           activePeriods[Len(activePeriods)]))}})

realTimePeriodsWithBlackHoleActive(list, realTime) == ActiveFrom(list, 1, <<realTime>>)

\* Mutant of realTimePeriodsWithBlackHoleEffective: the last element is a
\* difference too (of the last two active periods) instead of the last period.
realTimePeriodsEffectiveLastDifference(list, realTime) ==
  LET activePeriods == realTimePeriodsWithBlackHoleActive(list, realTime)
      n == Len(activePeriods)
  IN [i \in 1..n |-> IF i < n THEN activePeriods[i] - activePeriods[i + 1]
                              ELSE IF n > 1 THEN activePeriods[n - 1] - activePeriods[n]
                                            ELSE activePeriods[n]]

\* Mutant of realTimePeriodsWithBlackHoleEffective: the operands of the
\* subtraction are exchanged.
realTimePeriodsEffectiveExchanged(list, realTime) ==
  LET activePeriods == realTimePeriodsWithBlackHoleActive(list, realTime)
      n == Len(activePeriods)
  IN [i \in 1..n |-> IF i < n THEN activePeriods[i + 1] - activePeriods[i]
                              ELSE activePeriods[n]]

realTimePeriodsWithBlackHoleEffective(list, realTime) ==
  TheOnly({[i \in 1..Len(activePeriods) |->
              IF i < Len(activePeriods) THEN activePeriods[i] - activePeriods[i + 1]
                                        ELSE activePeriods[Len(activePeriods)]] :
             activePeriods \in {realTimePeriodsWithBlackHoleActive(list, realTime)}})

RECURSIVE SumSeq(_)
SumSeq(s) ==
  IF s = <<>> THEN 0 ELSE Head(s) + TheOnly({SumSeq(rest) : rest \in {Tail(s)}})

calculateGameTimeFromRealTime(list, realTime, speedups) ==
  TheOnly({SumSeq([i \in 1..Len(effectivePeriods) |-> effectivePeriods[i] * speedups[i]]) :
             effectivePeriods \in {realTimePeriodsWithBlackHoleEffective(list, realTime)}})

\* const seconds = blackHoleDiff / 1000
Seconds(blackHoleDiff) == blackHoleDiff \div 1000

\* Mutant of updatePhases: the loop skips a locked black hole (continue) where
\* the code leaves the loop (break); a black hole past the active periods
\* computed is given the last of them.
updatePhasesSkippingLocked(list, blackHoleDiff) ==
  IF ~areUnlocked(list) \/ blackHolePause
    THEN list
    ELSE LET seconds == Seconds(blackHoleDiff)
             activePeriods == realTimePeriodsWithBlackHoleActive(list, seconds)
         IN [i \in Holes |->
               IF isUnlocked(list[i])
                 THEN updatePhase(list[i], activePeriods[Min(i, Len(activePeriods))])
                 ELSE list[i]]

updatePhases(list, blackHoleDiff) ==
  IF ~areUnlocked(list) \/ blackHolePause
    THEN list
    ELSE LET seconds == Seconds(blackHoleDiff)
             activePeriods == realTimePeriodsWithBlackHoleActive(list, seconds)
         IN [i \in Holes |->
               IF i <= UnlockedPrefix(list)
                 THEN updatePhase(list[i], activePeriods[i])
                 ELSE list[i]]

\* ------------------------------------------------- exact numbers for the search

\* A number of the search is num / den with den >= 0.  As in JavaScript a
\* division by 0 gives NaN (0 / 0), Infinity or -Infinity (by the sign of num).
Whole(n) == [num |-> n, den |-> 1]
Quotient(a, b) == IF b >= 0 THEN [num |-> a, den |-> b] ELSE [num |-> -a, den |-> -b]

RECURSIVE Reduced(_)
Reduced(q) ==
  IF q.den > 1 /\ q.num % 2 = 0 /\ q.den % 2 = 0
    THEN Reduced([num |-> q.num \div 2, den |-> q.den \div 2])
    ELSE q

RECURSIVE ReducedSearch(_)
ReducedSearch(s) ==
  IF s.den > 1 /\ s.start % 2 = 0 /\ s.end % 2 = 0 /\ s.den % 2 = 0
    THEN ReducedSearch([start |-> s.start \div 2, end |-> s.end \div 2,
                        den |-> s.den \div 2, pass |-> s.pass])
    ELSE s

\* The chain with its times counted in units of 1 / unit second.
WithUnit(list, unit) ==
  [i \in Holes |-> [list[i] EXCEPT !.interval = @ * unit, !.duration = @ * unit,
                                  !.phase = @ * unit]]

\* calculateGameTimeFromRealTime(x, speedups) at x = x.num / x.den.
GameTimeAt(list, x, speedups) ==
  [num |-> calculateGameTimeFromRealTime(WithUnit(list, x.den), x.num, speedups),
   den |-> x.den]

\* ------------------------------------------------------ calculateOfflineTick

\* getGameSpeedupFactor(effects, undefined, id) / speedupWithoutBlackHole for
\* each black hole id: the total speedup while it is the highest active one.
\* The black hole powers multiply; here every black hole has the same power.
SpeedupFactors == {[i \in Holes |-> power ^ i] : power \in 1..MaxSpeedup}

calculateSpeedups(list, factor) ==
  <<1>> \o [i \in 1..UnlockedPrefix(list) |-> factor[i]]

\* The tolerances tried: 1 and 1 / 2 ^ ToleranceBits.
Tolerances == {[num |-> 1, den |-> 1], [num |-> 1, den |-> 2 ^ ToleranceBits]}

\* Mutant of IsSingleTick: the special case is never taken.
IsNoTick(numberOfTicks) == numberOfTicks = 0

\* if (numberOfTicks === 1)
IsSingleTick(numberOfTicks) == numberOfTicks = 1

\* const median = (start + end) / 2
Median(s) == [num |-> s.start + s.end, den |-> 2 * s.den]

\* x => this.calculateGameTimeFromRealTime(x, speedups) * numberOfTicks / totalGameTime
evaluationFunction(list, tk, x) ==
  [num |-> GameTimeAt(list, x, tk.speedups).num * tk.numberOfTicks,
   den |-> x.den * tk.totalGameTime]

\* const error = evaluationFunction(median) - target, with target = 1
SearchError(list, tk, x) ==
  LET f == evaluationFunction(list, tk, x)
  IN [num |-> f.num - 1 * f.den, den |-> f.den]

\* Mutant of SearchConverged: the test is error < tolerance, without Math.abs.
SearchConvergedNoAbs(error, tolerance) ==
  \/ error.den > 0 /\ error.num * tolerance.den < tolerance.num * error.den
  \/ error.den = 0 /\ error.num < 0

\* if (Math.abs(error) < tolerance): false for NaN and for an infinite error
SearchConverged(error, tolerance) ==
  error.den > 0 /\ Abs(error.num) * tolerance.den < tolerance.num * error.den

\* if (error < 0): false for NaN
IsNegative(error) == error.num < 0

NoTick == [totalRealTime |-> 0, numberOfTicks |-> 0, tolerance |-> [num |-> 0, den |-> 1],
           speedups |-> <<>>, totalGameTime |-> 0]
NoSearch == [start |-> 0, end |-> 0, den |-> 0, pass |-> 0]
NoResult == [realTickTime |-> [num |-> 0, den |-> 0],
             blackHoleSpeedup |-> [num |-> 0, den |-> 0]]

\* ------------------------------------------------------------ TimeStudyTree

\* The studies of the model: the first study, the three dimension path
\* studies and the study that allows a second path (the ids canBuySingle's
\* getters name), and two studies of one split that cost space theorems when
\* the other one is in the tree.  UnknownId is an id with no study.
StudyIds == {11, 71, 72, 73, 121, 122, 201}
UnknownId == 12
Undefined == 0

\* study.config: the fields canBuySingle reads.
StudyConfig(id) ==
  CASE id = 11 -> [cost |-> 1, reqType |-> "ALL", requirement |-> {},
                   STCost |-> 0, requiresST |-> {}]
    [] id = 71 -> [cost |-> 1, reqType |-> "DIMENSION_PATH", requirement |-> {11},
                   STCost |-> 0, requiresST |-> {}]
    [] id = 72 -> [cost |-> 2, reqType |-> "DIMENSION_PATH", requirement |-> {11},
                   STCost |-> 0, requiresST |-> {}]
    [] id = 73 -> [cost |-> 1, reqType |-> "DIMENSION_PATH", requirement |-> {11},
                   STCost |-> 0, requiresST |-> {}]
    [] id = 121 -> [cost |-> 1, reqType |-> "AT_LEAST_ONE", requirement |-> {11},
                    STCost |-> 3, requiresST |-> {122}]
    [] id = 122 -> [cost |-> 1, reqType |-> "AT_LEAST_ONE", requirement |-> {11},
                    STCost |-> 3, requiresST |-> {121}]
    [] id = 201 -> [cost |-> 1, reqType |-> "AT_LEAST_ONE", requirement |-> {71, 72, 73},
                    STCost |-> 0, requiresST |-> {}]

\* TimeStudy(id): the study object, or undefined when there is none.
TimeStudy(id) == IF id \in StudyIds THEN id ELSE Undefined

\* array.includes(x)
Includes(array, x) == \E k \in 1..Len(array) : array[k] = x

\* The sum of f over the elements of a sequence.
RECURSIVE SumOver(_, _)
SumOver(array, f) ==
  IF array = <<>> THEN 0
  ELSE f[Head(array)] + TheOnly({SumOver(rest, f) : rest \in {Tail(array)}})

Costs == [id \in StudyIds |-> StudyConfig(id).cost]

\* new TimeStudyTree(..., checkCosts), before its call of attemptBuyArray
NewTree(checkCosts) ==
  [checkCosts |-> checkCosts, spentTheorems |-> <<0, 0>>,
   invalidStudies |-> <<>>, purchasedStudies |-> <<>>]

\* [71, 72, 73].countWhere(x => this.purchasedStudies.includes(TimeStudy(x)))
currDimPathCount(tr) ==
  Cardinality({x \in {71, 72, 73} : Includes(tr.purchasedStudies, TimeStudy(x))})

\* Mutant of allowedDimPathCount: study 201 allows all three paths.
allowedDimPathCountAllWith201(tr, g) ==
  IF g.timeStudySplit THEN 3
  ELSE IF Includes(tr.purchasedStudies, TimeStudy(201)) THEN 3
  ELSE 1

allowedDimPathCount(tr, g) ==
  IF g.timeStudySplit THEN 3
  ELSE IF Includes(tr.purchasedStudies, TimeStudy(201)) THEN 2
  ELSE 1

\* const check = req => this.purchasedStudies.includes(TimeStudy(req))
\* (every requirement of the studies of the model is a study id)
check(tr, req) == Includes(tr.purchasedStudies, TimeStudy(req))

reqSatisfied(tr, g, config) ==
  CASE config.reqType = "AT_LEAST_ONE" -> \E r \in config.requirement : check(tr, r)
    [] config.reqType = "ALL" -> \A r \in config.requirement : check(tr, r)
    [] config.reqType = "DIMENSION_PATH" ->
         /\ \A r \in config.requirement : check(tr, r)
         /\ currDimPathCount(tr) < allowedDimPathCount(tr, g)

\* const stDiscount = V.has(V_UNLOCKS.RA_UNLOCK) ? 2 : 0
stDiscount(g) == IF g.raUnlock THEN 2 ELSE 0

stNeeded(tr, g, config) ==
  IF config.STCost # 0 /\ \E st \in config.requiresST : Includes(tr.purchasedStudies, TimeStudy(st))
    THEN Max(config.STCost - stDiscount(g), 0)
    ELSE 0

\* The sum of the costs of a set of studies.
RECURSIVE SumOfCosts(_)
SumOfCosts(studies) ==
  IF studies = {} THEN 0
  ELSE LET study == CHOOSE x \in studies : TRUE
       IN Costs[study] + SumOfCosts(studies \ {study})

\* TimeStudyTree.currentTree.spentTheorems[0]: the current tree is kept equal
\* to the studies of the game, so it has spent the cost of each of them.
currentTreeSpent(g) == SumOfCosts(g.studies)

\* Mutant of canBuySingle: the running totals are updated before the test of
\* the costs, so also for a study that is then refused.
canBuySingleAlwaysCounting(tr, g, study) ==
  IF study = Undefined \/ Includes(tr.purchasedStudies, study)
    THEN [bought |-> FALSE, spentTheorems |-> tr.spentTheorems]
  ELSE IF ~reqSatisfied(tr, g, StudyConfig(study))
    THEN [bought |-> FALSE, spentTheorems |-> tr.spentTheorems]
  ELSE LET config == StudyConfig(study)
           maxTT == g.timeTheorems + currentTreeSpent(g)
           maxST == g.spaceTheorems
           spent == <<tr.spentTheorems[1] + config.cost,
                      tr.spentTheorems[2] + stNeeded(tr, g, config)>>
       IN IF tr.checkCosts /\ (spent[1] > maxTT \/ spent[2] > maxST)
            THEN [bought |-> FALSE, spentTheorems |-> spent]
            ELSE [bought |-> TRUE, spentTheorems |-> spent]

\* canBuySingle(study): what it returns and the spentTheorems it leaves.
canBuySingle(tr, g, study) ==
  IF study = Undefined \/ Includes(tr.purchasedStudies, study)
    THEN [bought |-> FALSE, spentTheorems |-> tr.spentTheorems]
  ELSE IF ~reqSatisfied(tr, g, StudyConfig(study))
    THEN [bought |-> FALSE, spentTheorems |-> tr.spentTheorems]
  ELSE LET config == StudyConfig(study)
           maxTT == g.timeTheorems + currentTreeSpent(g)
           maxST == g.spaceTheorems
       IN IF tr.checkCosts
             /\ (\/ tr.spentTheorems[1] + config.cost > maxTT
                 \/ tr.spentTheorems[2] + stNeeded(tr, g, config) > maxST)
            THEN [bought |-> FALSE, spentTheorems |-> tr.spentTheorems]
            ELSE [bought |-> TRUE,
                  spentTheorems |-> <<tr.spentTheorems[1] + config.cost,
                                      tr.spentTheorems[2] + stNeeded(tr, g, config)>>]

\* attemptBuyArray(studyArray): the entries are study ids or study objects.
RECURSIVE attemptBuyArray(_, _, _)
attemptBuyArray(tr, g, studyArray) ==
  IF studyArray = <<>> THEN tr
  ELSE LET toBuy == TimeStudy(Head(studyArray))
           answer == canBuySingle(tr, g, toBuy)
       IN attemptBuyArray([tr EXCEPT !.spentTheorems = answer.spentTheorems,
                                     !.purchasedStudies =
                                       IF answer.bought THEN Append(@, toBuy) ELSE @],
                          g, Tail(studyArray))

\* parseStudyImport(input) for an import string without an EC part, given as
\* the numbers between its commas: the studies that exist, in order.
RECURSIVE parseStudyImport(_)
parseStudyImport(input) ==
  IF input = <<>> THEN <<>>
  ELSE (IF Head(input) \in StudyIds THEN <<TimeStudy(Head(input))>> ELSE <<>>)
         \o parseStudyImport(Tail(input))

\* The entries parseStudyImport pushes on invalidStudies.
RECURSIVE invalidStudies(_)
invalidStudies(input) ==
  IF input = <<>> THEN <<>>
  ELSE (IF Head(input) \in StudyIds THEN <<>> ELSE <<Head(input)>>)
         \o invalidStudies(Tail(input))

\* new TimeStudyTree(studies, checkCosts) for a string or an array
constructor(g, kind, studies, checkCosts) ==
  IF kind = "string"
    THEN attemptBuyArray([NewTree(checkCosts) EXCEPT !.invalidStudies = invalidStudies(studies)],
                         g, parseStudyImport(studies))
    ELSE attemptBuyArray(NewTree(checkCosts), g, studies)

\* study.purchase(true), of normal-time-study.js: the game buys the study when
\* the time theorems pay for it.
purchase(g, study) ==
  IF g.timeTheorems < StudyConfig(study).cost
    THEN g
    ELSE [g EXCEPT !.studies = @ \cup {study},
                   !.timeTheorems = @ - StudyConfig(study).cost]

\* for (const study of this.purchasedStudies) if (!study.isBought) study.purchase(true)
RECURSIVE commitFrom(_, _)
commitFrom(array, g) ==
  IF array = <<>> THEN g
  ELSE commitFrom(Tail(array),
                  IF Head(array) \in g.studies THEN g ELSE purchase(g, Head(array)))

commitToGameState(tr, g) == commitFrom(tr.purchasedStudies, g)

\* The game at the start: no study bought.
FreshGames ==
  [studies : {{}}, timeTheorems : {MaxTheorems}, spaceTheorems : {MaxSpaceTheorems},
   timeStudySplit : BOOLEAN, raUnlock : BOOLEAN]

NoGame == [studies |-> {}, timeTheorems |-> 0, spaceTheorems |-> 0,
           timeStudySplit |-> FALSE, raUnlock |-> FALSE]
NoTree == NewTree(FALSE)

\* The arrays passed to attemptBuyArray and the constructor: study ids, with
\* ids of no study among them.
RECURSIVE ArraysUpTo(_)
ArraysUpTo(n) ==
  IF n = 0 THEN {<<>>}
  ELSE ArraysUpTo(n - 1)
         \cup {Append(a, id) : a \in {b \in ArraysUpTo(n - 1) : Len(b) = n - 1},
                               id \in StudyIds \cup {UnknownId}}

StudyArrays == ArraysUpTo(MaxArray)

\* ------------------------------------------------------------------ actions

Diffs == {1000 * k : k \in 0..MaxSeconds}

\* A black hole of a new save: inactive at phase 0 with no activations.  Its
\* interval and duration (the values of intervalUpgrade and durationUpgrade)
\* are positive.  A locked black hole is never read, so its interval and
\* duration are left at 1.
FreshHole ==
  {h \in [interval : 1..MaxInterval, duration : 1..MaxDuration,
          unlocked : BOOLEAN, active : {FALSE}, phase : {0}, activations : {0}] :
     ~h.unlocked => (h.interval = 1 /\ h.duration = 1)}

\* The chains of a new save.  As in the constructor (3600 / 10 ^ id and
\* 10 - 3 * id), a black hole that follows an unlocked one has no longer an
\* interval and no longer a duration than it.
FreshChains ==
  {c \in [Holes -> FreshHole] :
     \A i \in 1..(NumHoles - 1) :
       (c[i].unlocked /\ c[i + 1].unlocked) =>
         (c[i + 1].interval <= c[i].interval /\ c[i + 1].duration <= c[i].duration)}

Init ==
  /\ blackHole \in FreshChains
  /\ blackHolePause = FALSE
  /\ enslavedRunning \in BOOLEAN
  /\ pc = "idle"
  /\ tick = NoTick
  /\ search = NoSearch
  /\ result = NoResult
  /\ game = NoGame
  /\ tree = NoTree

\* The code is single-threaded and synchronous: nothing else runs while
\* calculateOfflineTick is searching.
UpdatePhases ==
  \E diff \in Diffs :
    /\ pc = "idle"
    /\ \A i \in Holes : updatePhases(blackHole, diff)[i].activations <= MaxActivations
    /\ blackHole' = updatePhases(blackHole, diff)
    /\ UNCHANGED <<blackHolePause, enslavedRunning, pc, tick, search, result>>
    /\ UNCHANGED studyVars

TogglePause ==
  /\ pc = "idle"
  /\ areUnlocked(blackHole)
  /\ blackHolePause' = ~blackHolePause
  /\ UNCHANGED <<blackHole, enslavedRunning, pc, tick, search, result>>
  /\ UNCHANGED studyVars

\* calculateOfflineTick(totalRealTime, numberOfTicks, tolerance), up to its
\* return for one tick or its call of binarySearch(0, totalRealTime, ...).
CalculateOfflineTick ==
  \E totalRealTime \in 0..MaxRealTime, numberOfTicks \in 1..MaxTicks,
     tolerance \in Tolerances, factor \in SpeedupFactors :
    LET speedups == calculateSpeedups(blackHole, factor)
        totalGameTime == calculateGameTimeFromRealTime(blackHole, totalRealTime, speedups)
    IN /\ pc = "idle"
       /\ tick' = [totalRealTime |-> totalRealTime, numberOfTicks |-> numberOfTicks,
                   tolerance |-> tolerance, speedups |-> speedups,
                   totalGameTime |-> totalGameTime]
       /\ IF IsSingleTick(numberOfTicks)
            THEN /\ pc' = "done"
                 /\ result' = [realTickTime |-> Whole(totalRealTime),
                               blackHoleSpeedup |-> Quotient(totalGameTime, totalRealTime)]
                 /\ UNCHANGED search
            ELSE /\ pc' = "search"
                 /\ search' = [start |-> 0, end |-> totalRealTime, den |-> 1, pass |-> 0]
                 /\ UNCHANGED result
       /\ UNCHANGED <<blackHole, blackHolePause, enslavedRunning>>
       /\ UNCHANGED studyVars

\* Mutant of BinarySearchReturn: the loop returns start where the code returns
\* the median.
BinarySearchReturnStart ==
  /\ pc = "search"
  /\ SearchConverged(SearchError(blackHole, tick, Median(search)), tick.tolerance)
  /\ pc' = "done"
  /\ result' = [realTickTime |-> Reduced([num |-> search.start, den |-> search.den]),
                blackHoleSpeedup |->
                  Quotient(GameTimeAt(blackHole, [num |-> search.start, den |-> search.den],
                                      tick.speedups).num,
                           search.start)]
  /\ UNCHANGED <<blackHole, blackHolePause, enslavedRunning, tick, search>>
  /\ UNCHANGED studyVars

\* One pass of the while (true) loop of binarySearch that returns the median,
\* and the rest of calculateOfflineTick after it.
BinarySearchReturn ==
  /\ pc = "search"
  /\ SearchConverged(SearchError(blackHole, tick, Median(search)), tick.tolerance)
  /\ pc' = "done"
  /\ result' = [realTickTime |-> Reduced(Median(search)),
                blackHoleSpeedup |->
                  Quotient(GameTimeAt(blackHole, Median(search), tick.speedups).num,
                           Median(search).num)]
  /\ UNCHANGED <<blackHole, blackHolePause, enslavedRunning, tick, search>>
  /\ UNCHANGED studyVars

\* One pass of the loop that moves start to the median.
BinarySearchRaiseStart ==
  /\ pc = "search"
  /\ ~SearchConverged(SearchError(blackHole, tick, Median(search)), tick.tolerance)
  /\ IsNegative(SearchError(blackHole, tick, Median(search)))
  /\ search' = ReducedSearch([start |-> Median(search).num, end |-> 2 * search.end,
                              den |-> Median(search).den, pass |-> 1 - search.pass])
  /\ UNCHANGED <<blackHole, blackHolePause, enslavedRunning, pc, tick, result>>
  /\ UNCHANGED studyVars

\* Mutant of BinarySearchLowerEnd: the pass advances the chain by the second
\* it has just evaluated.
BinarySearchLowerEndAdvancing ==
  /\ pc = "search"
  /\ ~SearchConverged(SearchError(blackHole, tick, Median(search)), tick.tolerance)
  /\ ~IsNegative(SearchError(blackHole, tick, Median(search)))
  /\ search' = ReducedSearch([start |-> 2 * search.start, end |-> Median(search).num,
                              den |-> Median(search).den, pass |-> 1 - search.pass])
  /\ blackHole' = updatePhases(blackHole, 1000)
  /\ UNCHANGED <<blackHolePause, enslavedRunning, pc, tick, result>>
  /\ UNCHANGED studyVars

\* One pass of the loop that moves end to the median.
BinarySearchLowerEnd ==
  /\ pc = "search"
  /\ ~SearchConverged(SearchError(blackHole, tick, Median(search)), tick.tolerance)
  /\ ~IsNegative(SearchError(blackHole, tick, Median(search)))
  /\ search' = ReducedSearch([start |-> 2 * search.start, end |-> Median(search).num,
                              den |-> Median(search).den, pass |-> 1 - search.pass])
  /\ UNCHANGED <<blackHole, blackHolePause, enslavedRunning, pc, tick, result>>
  /\ UNCHANGED studyVars

BinarySearchStep == BinarySearchReturn \/ BinarySearchRaiseStart \/ BinarySearchLowerEnd

Next == UpdatePhases \/ TogglePause

\* The chain alone: phase updates and pausing.
Spec == Init /\ [][Next]_vars

OfflineNext ==
  \/ UpdatePhases
  \/ TogglePause
  \/ CalculateOfflineTick
  \/ BinarySearchReturn
  \/ BinarySearchRaiseStart
  \/ BinarySearchLowerEnd

\* The chain and the offline tick planner, for the chains whose unlocked black
\* holes are the first ones and share one interval and one duration.
OfflineInit ==
  /\ Init
  /\ ~enslavedRunning
  /\ \A i \in 1..(NumHoles - 1) :
       /\ blackHole[i + 1].unlocked => blackHole[i].unlocked
       /\ blackHole[i + 1].unlocked =>
            /\ blackHole[i + 1].interval = blackHole[i].interval
            /\ blackHole[i + 1].duration = blackHole[i].duration

OfflineSpec == OfflineInit /\ [][OfflineNext]_vars

\* The loop of binarySearch does not pause: a pass that can be taken is taken.
FairOfflineSpec == OfflineSpec /\ WF_vars(BinarySearchStep)

\* new TimeStudyTree(studies, checkCosts)
Construct ==
  \E kind \in {"string", "object"}, studies \in ArraysUpTo(1), checkCosts \in BOOLEAN :
    \E built \in {constructor(game, kind, studies, checkCosts)} :
      /\ Len(built.purchasedStudies) <= MaxPurchased
      /\ tree' = built
      /\ UNCHANGED game
      /\ UNCHANGED chainVars

\* Mutant of AttemptBuyArray: each study the tree accepts is bought in the
\* game at once.
AttemptBuyArrayCommitting ==
  \E studyArray \in StudyArrays :
    \E grown \in {attemptBuyArray(tree, game, studyArray)} :
      /\ Len(grown.purchasedStudies) <= MaxPurchased
      /\ tree' = grown
      /\ Cardinality(commitToGameState(grown, game).studies) <= MaxBought
      /\ game' = commitToGameState(grown, game)
      /\ UNCHANGED chainVars

\* tree.attemptBuyArray(studyArray)
AttemptBuyArray ==
  \E studyArray \in StudyArrays :
    \E grown \in {attemptBuyArray(tree, game, studyArray)} :
      /\ Len(grown.purchasedStudies) <= MaxPurchased
      /\ tree' = grown
      /\ UNCHANGED game
      /\ UNCHANGED chainVars

\* tree.commitToGameState()
CommitToGameState ==
  \E after \in {commitToGameState(tree, game)} :
    /\ Cardinality(after.studies) <= MaxBought
    /\ game' = after
    /\ UNCHANGED tree
    /\ UNCHANGED chainVars

TreeNext == Construct \/ AttemptBuyArray \/ CommitToGameState

\* A time study tree and the game it reads, the black holes left alone.
TreeInit ==
  /\ blackHole = [i \in Holes |-> [interval |-> 1, duration |-> 1, unlocked |-> FALSE,
                                  active |-> FALSE, phase |-> 0, activations |-> 0]]
  /\ blackHolePause = FALSE
  /\ enslavedRunning = FALSE
  /\ pc = "idle"
  /\ tick = NoTick
  /\ search = NoSearch
  /\ result = NoResult
  /\ game \in FreshGames
  /\ tree = NoTree

TreeSpec == TreeInit /\ [][TreeNext]_vars

\* ------------------------------------------------------------------- claims

Times == 0..MaxSeconds

\* The phase is inside the cycle.
PhaseInCycle(h) == 0 <= h.phase /\ h.phase < cycleLength(h)

\* C1: after every updatePhase call with a non-negative elapsed amount the
\* phase satisfies 0 <= phase < cycleLength: in every state the chain reaches,
\* and after one more updatePhase of any amount on any black hole.
C1_PhaseInvariant ==
  \A i \in Holes :
    /\ PhaseInCycle(blackHole[i])
    /\ \A t \in Times : PhaseInCycle(updatePhase(blackHole[i], t))

\* A black hole driven by another one has been activated, is charged and is
\* past the start of its active period.
C1_Witness ==
  /\ isUnlocked(blackHole[1]) /\ isUnlocked(blackHole[2])
  /\ blackHole[1].activations >= 2
  /\ blackHole[2].activations >= 1
  /\ blackHole[2].active /\ blackHole[2].phase >= 1

\* The brute-force stepper: the number of unit steps, out of `time`, that the
\* black hole starts charged, advancing it by updatePhase(1) after each.
RECURSIVE StepperActiveTime(_, _)
StepperActiveTime(h, time) ==
  IF time = 0 THEN 0
  ELSE (IF isCharged(h) THEN 1 ELSE 0) + StepperActiveTime(updatePhase(h, 1), time - 1)

\* C2: the closed form realTimeWhileActive(t) equals the number of unit steps
\* of the brute-force stepper during which the black hole is charged.
C2_Conservation ==
  \A i \in Holes : \A t \in Times :
    realTimeWhileActive(blackHole[i], t) = StepperActiveTime(blackHole[i], t)

\* An inactive black hole part-way through its interval, and a time that spans
\* more than a full cycle of it.
C2_Witness ==
  \E i \in Holes :
    /\ isUnlocked(blackHole[i]) /\ blackHole[i].activations >= 1
    /\ ~blackHole[i].active /\ blackHole[i].phase >= 1
    /\ realTimeWhileActive(blackHole[i], MaxSeconds) > blackHole[i].duration

\* The fields of the chain that a phase update writes.
PhaseState(list) ==
  [i \in Holes |-> <<list[i].phase, list[i].active, list[i].activations>>]

\* C3: fast-forward without drift: updatePhases(a) followed by updatePhases(b)
\* leaves every black hole with the phase, charged flag and activations of a
\* single updatePhases(a + b).
C3_FastForward ==
  \A a \in Diffs :
    LET afterA == updatePhases(blackHole, a)
    IN \A b \in Diffs :
         (a + b) \in Diffs =>
           PhaseState(updatePhases(afterA, b)) = PhaseState(updatePhases(blackHole, a + b))

\* An unpaused chain of three unlocked black holes, the third already
\* activated, and a split update that moves the third in both parts.
C3_Witness ==
  /\ ~blackHolePause
  /\ UnlockedPrefix(blackHole) = NumHoles
  /\ blackHole[NumHoles].activations >= 1
  /\ \E a, b \in Diffs :
       /\ updatePhases(blackHole, a)[NumHoles] # blackHole[NumHoles]
       /\ updatePhases(updatePhases(blackHole, a), b)[NumHoles]
            # updatePhases(blackHole, a)[NumHoles]

\* C4: the elements of realTimePeriodsWithBlackHoleEffective(t) sum to t.
C4_EffectiveSum ==
  \A t \in Times : SumSeq(realTimePeriodsWithBlackHoleEffective(blackHole, t)) = t

\* Three unlocked black holes after an update, and a time in which every
\* level is the effective one for a while.
C4_Witness ==
  /\ UnlockedPrefix(blackHole) = NumHoles
  /\ blackHole[1].activations >= 1
  /\ \E t \in Times :
       \A k \in 1..(NumHoles + 1) :
         realTimePeriodsWithBlackHoleEffective(blackHole, t)[k] > 0

\* C5: for a fixed black hole state realTimeWhileActive(t) is non-decreasing
\* in t.
C5_Monotone ==
  \A i \in Holes : \A t1, t2 \in Times :
    t1 <= t2 =>
      realTimeWhileActive(blackHole[i], t1) <= realTimeWhileActive(blackHole[i], t2)

\* A black hole that has been updated, whose active time grows over one
\* second and stays level over another.
C5_Witness ==
  \E i \in Holes :
    /\ isUnlocked(blackHole[i]) /\ blackHole[i].activations >= 1
    /\ \E t \in 0..(MaxSeconds - 1) :
         realTimeWhileActive(blackHole[i], t) < realTimeWhileActive(blackHole[i], t + 1)
    /\ \E t \in 1..(MaxSeconds - 1) :
         realTimeWhileActive(blackHole[i], t) = realTimeWhileActive(blackHole[i], t + 1)

\* Lists of non-negative speedups, one per level of the chain: each level
\* alone (the other speedups 0), and every list calculateSpeedups can give.
SpeedupLists ==
  {[k \in 1..(UnlockedPrefix(blackHole) + 1) |-> IF k = level THEN MaxSpeedup ELSE 0] :
     level \in 1..(UnlockedPrefix(blackHole) + 1)}
    \cup {calculateSpeedups(blackHole, factor) : factor \in SpeedupFactors}

\* C6: for a fixed chain state and fixed non-negative speedups,
\* calculateGameTimeFromRealTime(t, speedups) is non-decreasing in t.
C6_GameTimeMonotone ==
  \A speedups \in SpeedupLists :
    LET gameTime == [t \in Times |-> calculateGameTimeFromRealTime(blackHole, t, speedups)]
    IN \A t \in 1..MaxSeconds : gameTime[t - 1] <= gameTime[t]

\* Three unlocked black holes after updates, and speedups under which the
\* game time grows over one second and stays level over another.
C6_Witness ==
  /\ UnlockedPrefix(blackHole) = NumHoles
  /\ blackHole[2].activations >= 1
  /\ \E speedups \in SpeedupLists : \E t \in 0..(MaxSeconds - 1) :
       /\ \A k \in 1..(NumHoles + 1) : speedups[k] > 0
       /\ calculateGameTimeFromRealTime(blackHole, t + 1, speedups)
            > calculateGameTimeFromRealTime(blackHole, t, speedups) + 1
  /\ \E speedups \in SpeedupLists : \E t \in 1..(MaxSeconds - 1) :
       /\ calculateGameTimeFromRealTime(blackHole, t, speedups) > 0
       /\ calculateGameTimeFromRealTime(blackHole, t, speedups)
            = calculateGameTimeFromRealTime(blackHole, t + 1, speedups)

\* C7: whenever calculateOfflineTick(T, N, tol) with N >= 2 returns, its
\* realTickTime satisfies
\* |calculateGameTimeFromRealTime(realTickTime) * N / calculateGameTimeFromRealTime(T) - 1| < tol.
C7_SearchCorrect ==
  (pc = "done" /\ tick.numberOfTicks >= 2) =>
    LET x == result.realTickTime
        tickGameTime ==
          calculateGameTimeFromRealTime(WithUnit(blackHole, x.den), x.num, tick.speedups)
        totalGameTime ==
          calculateGameTimeFromRealTime(blackHole, tick.totalRealTime, tick.speedups)
    IN /\ x.den > 0
       /\ totalGameTime > 0
       /\ Abs(tickGameTime * tick.numberOfTicks - x.den * totalGameTime) * tick.tolerance.den
            < tick.tolerance.num * x.den * totalGameTime

\* A search over a chain of two or more updated black holes that returned
\* after bisecting at least three times.
C7_Witness ==
  /\ pc = "done" /\ tick.numberOfTicks >= 2
  /\ UnlockedPrefix(blackHole) >= 2 /\ blackHole[2].activations >= 1
  /\ result.realTickTime.den >= 8

\* C8: calculateOfflineTick(T, 1, tol) returns exactly
\* (T, calculateGameTimeFromRealTime(T) / T) for every tolerance, and
\* binarySearch is not entered.
C8_SingleTick ==
  (pc = "done" /\ tick.numberOfTicks = 1) =>
    /\ result.realTickTime = [num |-> tick.totalRealTime, den |-> 1]
    /\ result.blackHoleSpeedup
         = [num |-> calculateGameTimeFromRealTime(blackHole, tick.totalRealTime,
                                                  tick.speedups),
            den |-> tick.totalRealTime]
    /\ search = NoSearch

\* A single tick over a positive time in which an updated black hole speeds
\* the game up.
C8_Witness ==
  /\ pc = "done" /\ tick.numberOfTicks = 1 /\ tick.totalRealTime > 0
  /\ isUnlocked(blackHole[1]) /\ blackHole[1].activations >= 1
  /\ result.blackHoleSpeedup.num > result.blackHoleSpeedup.den
  /\ tick.tolerance.den = 2 ^ ToleranceBits

\* C9: for every totalRealTime >= 0, numberOfTicks >= 2 and tolerance > 0 the
\* binary search inside calculateOfflineTick converges: the loop eventually
\* returns a value.
C9_SearchConverges == (pc = "search") ~> (pc = "done")

\* C10: a binary search that cannot converge (its target function is
\* malformed: the total game time is 0, so every evaluation is NaN) ends by
\* signalling a failure; it does not loop forever.
C10_NonConvergenceSignalled ==
  (pc = "search" /\ tick.totalGameTime = 0) ~> (pc = "failed")

\* Negative elapsed times, as blackHoleDiff values.
NegativeDiffs == {-1000 * k : k \in 1..MaxSeconds}

\* C11: a negative elapsed time passed to updatePhases is rejected: the call
\* is not processed and leaves the phase, charged flag and activations of every
\* black hole unchanged.
C11_NegativeRejected ==
  \A diff \in NegativeDiffs :
    PhaseState(updatePhases(blackHole, diff)) = PhaseState(blackHole)

\* C12: updatePhases changes no black hole when the chain is paused or black
\* hole 1 is locked; otherwise the first locked black hole and every black
\* hole after it (an unlocked one too) keep all their fields.
C12_UpdateFrame ==
  \A diff \in Diffs :
    LET after == updatePhases(blackHole, diff)
    IN /\ (blackHolePause \/ ~isUnlocked(blackHole[1])) => after = blackHole
       /\ \A i \in Holes :
            (\E j \in 1..i : ~isUnlocked(blackHole[j])) => after[i] = blackHole[i]

\* An unpaused chain whose black hole 2 is locked and black hole 3 unlocked,
\* after an update of black hole 1 and before another one that moves it.
C12_Witness ==
  /\ ~blackHolePause
  /\ isUnlocked(blackHole[1]) /\ ~isUnlocked(blackHole[2]) /\ isUnlocked(blackHole[3])
  /\ blackHole[1].activations >= 1
  /\ \E diff \in Diffs : updatePhases(blackHole, diff)[1] # blackHole[1]

\* C13: a step of calculateOfflineTick or of binarySearch (and so every
\* function they call) leaves the black holes and the pause flag as they were;
\* the phase, charged flag and activations change only in a step of
\* updatePhases.
C13_PlannerPure ==
  [][/\ (pc' # "idle") => (blackHole' = blackHole /\ blackHolePause' = blackHolePause)
     /\ (PhaseState(blackHole') # PhaseState(blackHole)) =>
          /\ pc = "idle" /\ pc' = "idle"
          /\ \E diff \in Diffs : blackHole' = updatePhases(blackHole, diff)]_vars

\* A search that bisected at least twice and returned, over a chain whose
\* first black hole is charged and part-way through its duration.
C13_Witness ==
  /\ pc = "done" /\ tick.numberOfTicks >= 2 /\ search.den >= 2
  /\ isUnlocked(blackHole[1])
  /\ blackHole[1].active /\ blackHole[1].phase >= 1

MaxCycles == 2

\* C14: updatePhase by a whole number k >= 1 of cycles returns the phase and
\* the charged flag to their values and adds exactly k activations; so it does
\* for interval 3600, duration 400, uncharged at phase 0, advanced by 4000.
C14_WholeCycles ==
  /\ \A i \in Holes : \A k \in 1..MaxCycles :
       LET h == blackHole[i]
           after == updatePhase(h, k * cycleLength(h))
       IN /\ after.phase = h.phase
          /\ after.active = h.active
          /\ after.activations = h.activations + k
  /\ LET h == [interval |-> 3600, duration |-> 400, unlocked |-> TRUE,
               active |-> FALSE, phase |-> 0, activations |-> 0]
     IN updatePhase(h, 4000) = [h EXCEPT !.activations = 1]

\* A black hole driven by another one, charged and part-way through its
\* duration, with cycles of more than two seconds.
C14_Witness ==
  \E i \in 2..NumHoles :
    /\ isUnlocked(blackHole[i]) /\ blackHole[i].activations >= 1
    /\ blackHole[i].active /\ blackHole[i].phase >= 1
    /\ cycleLength(blackHole[i]) > 2

\* The number of times one updatePhase call writes the charged flag to a new
\* value.
Toggles(h, activePeriod) ==
  LET folded == FoldCycles(h, activePeriod)
  IN (IF folded.active # h.active THEN 1 ELSE 0)
       + (IF CrossBoundary(folded).active # folded.active THEN 1 ELSE 0)

\* The number of changes of the charged flag when the time is applied as unit
\* steps.
RECURSIVE StepperToggles(_, _)
StepperToggles(h, time) ==
  IF time = 0 THEN 0
  ELSE (IF updatePhase(h, 1).active # h.active THEN 1 ELSE 0)
         + StepperToggles(updatePhase(h, 1), time - 1)

\* C15 as stated: exactly one charged/uncharged toggle occurs per updatePhase
\* call, regardless of how many full cycles were folded in.
C15_ExactlyOneToggle ==
  \A i \in Holes : \A t \in Times : Toggles(blackHole[i], t) = 1

\* C15, amended: at most one charged/uncharged toggle occurs per updatePhase
\* call, regardless of how many full cycles were folded in: one when the time
\* crosses an odd number of boundaries, none when it crosses an even number.
C15_AtMostOneToggle ==
  \A i \in Holes : \A t \in Times :
    /\ Toggles(blackHole[i], t) <= 1
    /\ Toggles(blackHole[i], t) = StepperToggles(blackHole[i], t) % 2

\* An updated black hole and two times that fold at least one full cycle: one
\* call toggles the flag, the other does not.
C15_Witness ==
  \E i \in Holes :
    /\ isUnlocked(blackHole[i]) /\ blackHole[i].activations >= 1
    /\ \E t \in Times :
         /\ t >= 2 * cycleLength(blackHole[i])
         /\ Toggles(blackHole[i], t) = 1
    /\ \E t \in Times :
         /\ t >= cycleLength(blackHole[i])
         /\ Toggles(blackHole[i], t) = 0

\* C16: with zero elapsed real time every active period is zero and the game
\* time is zero, whatever the speedups.
C16_ZeroTime ==
  /\ \A k \in 1..(UnlockedPrefix(blackHole) + 1) :
       realTimePeriodsWithBlackHoleActive(blackHole, 0)[k] = 0
  /\ \A speedups \in SpeedupLists :
       calculateGameTimeFromRealTime(blackHole, 0, speedups) = 0

\* Three unlocked black holes, the first charged, the second part-way through
\* a phase, the third already activated.
C16_Witness ==
  /\ UnlockedPrefix(blackHole) = NumHoles
  /\ blackHole[1].active
  /\ blackHole[2].phase >= 1
  /\ blackHole[3].activations >= 1

\* The studies of an array, as a set.
Elements(array) == {array[k] : k \in 1..Len(array)}

\* C17: a TimeStudyTree is virtual: a step that constructs a tree or changes
\* it (attemptBuyArray, canBuySingle) leaves the game as it was; the game
\* changes only in commitToGameState, which buys only studies of
\* purchasedStudies that were not bought, each paid for once.
C17_TreeVirtual ==
  [][/\ (tree' # tree) => (game' = game)
     /\ (game' # game) =>
          /\ tree' = tree
          /\ game.studies \subseteq game'.studies
          /\ (game'.studies \ game.studies) \subseteq Elements(tree.purchasedStudies)
          /\ game'.timeTheorems
               = game.timeTheorems - SumOfCosts(game'.studies \ game.studies)
          /\ game' = [game EXCEPT !.studies = game'.studies,
                                  !.timeTheorems = game'.timeTheorems]]_vars

\* A tree that checks costs, after a commit: one of its studies is bought in
\* the game and another one is not.
C17_Witness ==
  /\ tree.checkCosts
  /\ \E bought \in Elements(tree.purchasedStudies) : bought \in game.studies
  /\ \E virtual \in Elements(tree.purchasedStudies) : virtual \notin game.studies

\* The space theorems charged for the studies of an array, each with the
\* studies before it in the tree.
RECURSIVE SpaceTheoremsCharged(_, _)
SpaceTheoremsCharged(array, g) ==
  IF array = <<>> THEN 0
  ELSE LET before == SubSeq(array, 1, Len(array) - 1)
       IN SpaceTheoremsCharged(before, g)
            + stNeeded([purchasedStudies |-> before], g, StudyConfig(array[Len(array)]))

RECURSIVE StepperActivations(_, _)
StepperActivations(h, time) ==
  IF time = 0 THEN 0
  ELSE (IF ~isCharged(h) /\ isCharged(updatePhase(h, 1)) THEN 1 ELSE 0)
         + StepperActivations(updatePhase(h, 1), time - 1)

\* C19: updatePhase(t) raises activations by the number of uncharged-to-charged
\* transitions of the same time applied as unit steps, and never lowers it.
C19_ActivationsCount ==
  \A i \in Holes : \A t \in Times :
    LET h == blackHole[i]
        after == updatePhase(h, t)
    IN /\ after.activations - h.activations = StepperActivations(h, t)
       /\ after.activations >= h.activations

\* An updated uncharged black hole part-way through its interval, and a time
\* in which it is activated at least twice.
C19_Witness ==
  \E i \in Holes :
    /\ isUnlocked(blackHole[i]) /\ blackHole[i].activations >= 1
    /\ ~blackHole[i].active /\ blackHole[i].phase >= 1
    /\ StepperActivations(blackHole[i], MaxSeconds) >= 2

\* C20: for totalRealTime > 0 and positive speedups the realTickTime returned
\* by calculateOfflineTick is positive and at most totalRealTime, and the game
\* time of the tick is positive.
C20_TickPositive ==
  (/\ pc = "done"
   /\ tick.totalRealTime > 0
   /\ \A k \in 1..Len(tick.speedups) : tick.speedups[k] > 0) =>
    LET x == result.realTickTime
    IN /\ x.den > 0
       /\ x.num > 0
       /\ x.num <= tick.totalRealTime * x.den
       /\ GameTimeAt(blackHole, x, tick.speedups).num > 0

\* A search for one of MaxTicks ticks that returned a tick shorter than the
\* total time, during which a black hole speeds the game up.
C20_Witness ==
  /\ pc = "done" /\ tick.numberOfTicks = MaxTicks /\ tick.totalRealTime > 0
  /\ result.realTickTime.num < tick.totalRealTime * result.realTickTime.den
  /\ result.blackHoleSpeedup.num > result.blackHoleSpeedup.den

\* C21: when a study's requirement is satisfied, canBuySingle adds the cost of
\* the study (and the space theorems it needs) to the running spentTheorems,
\* whether or not the tree checks the costs and the theorems left are enough.
\* The doc comment of canBuySingle says so; the code returns before the
\* addition when checkCosts refuses the study.
C21_CostAlwaysCounted ==
  \A study \in StudyIds :
    (/\ ~Includes(tree.purchasedStudies, TimeStudy(study))
     /\ reqSatisfied(tree, game, StudyConfig(study)))
    => canBuySingle(tree, game, TimeStudy(study)).spentTheorems
         = <<tree.spentTheorems[1] + StudyConfig(study).cost,
             tree.spentTheorems[2] + stNeeded(tree, game, StudyConfig(study))>>

\* The phase is the time since the last transition: below the duration when
\* charged, below the interval when not.
PhaseSinceTransition(h) ==
  /\ 0 <= h.phase
  /\ h.phase < (IF isCharged(h) THEN h.duration ELSE h.interval)

\* C22: after every updatePhase call with a non-negative elapsed time, charged
\* implies 0 <= phase < duration and uncharged implies 0 <= phase < interval:
\* in every state the chain reaches, after one more updatePhase of any amount,
\* and also when the call starts from any non-negative phase and either flag.
C22_PhaseSinceTransition ==
  \A i \in Holes :
    /\ PhaseSinceTransition(blackHole[i])
    /\ \A t \in Times :
         /\ PhaseSinceTransition(updatePhase(blackHole[i], t))
         /\ \A phase \in Times, active \in BOOLEAN :
              PhaseSinceTransition(
                updatePhase([blackHole[i] EXCEPT !.phase = phase, !.active = active], t))

\* A black hole that updatePhase has charged and left inside its duration, and
\* that a further call discharges with time to spare; and a call that starts
\* from a phase beyond the cycle.
C22_Witness ==
  \E i \in Holes :
    /\ isUnlocked(blackHole[i])
    /\ isCharged(blackHole[i])
    /\ blackHole[i].activations >= 1
    /\ blackHole[i].phase > 0
    /\ \E t \in Times :
         /\ ~isCharged(updatePhase(blackHole[i], t))
         /\ updatePhase(blackHole[i], t).phase > 0
    /\ \E phase \in Times :
         /\ phase >= cycleLength(blackHole[i])
         /\ isCharged(updatePhase([blackHole[i] EXCEPT !.phase = phase], 0))
         /\ updatePhase([blackHole[i] EXCEPT !.phase = phase], 0).phase > 0

\* C23: for every chain state reached by updatePhases calls and every t >= 0,
\* the active periods start at t and never increase or go below zero
\* (0 <= active(i) <= active(i-1) <= t), and every effective period is
\* non-negative.
C23_PeriodsNonIncreasing ==
  \A t \in Times :
    LET activePeriods == realTimePeriodsWithBlackHoleActive(blackHole, t)
        effectivePeriods == realTimePeriodsWithBlackHoleEffective(blackHole, t)
    IN /\ activePeriods[1] = t
       /\ \A k \in 2..Len(activePeriods) :
            0 <= activePeriods[k] /\ activePeriods[k] <= activePeriods[k - 1]
       /\ \A k \in 1..Len(effectivePeriods) : effectivePeriods[k] >= 0

\* A chain of three unlocked black holes that updatePhases has moved, with a
\* time whose active periods all differ and stay positive.
C23_Witness ==
  /\ \A i \in Holes : isUnlocked(blackHole[i])
  /\ \E i \in Holes : blackHole[i].activations >= 1
  /\ \E i \in Holes : blackHole[i].phase > 0
  /\ \E t \in Times :
       LET activePeriods == realTimePeriodsWithBlackHoleActive(blackHole, t)
       IN /\ Len(activePeriods) = NumHoles + 1
          /\ \A k \in 2..Len(activePeriods) : activePeriods[k] < activePeriods[k - 1]
          /\ activePeriods[Len(activePeriods)] > 0

\* The entries of purchasedStudies that are dimension-path studies.
DimPathEntries(tr) ==
  {k \in 1..Len(tr.purchasedStudies) : tr.purchasedStudies[k] \in {71, 72, 73}}

\* The limit the game sets on the dimension paths of a tree: 3 with the
\* dilation upgrade, 2 once study 201 is purchased, else 1.
DimPathLimit(tr, g) ==
  IF g.timeStudySplit THEN 3
  ELSE IF 201 \in Elements(tr.purchasedStudies) THEN 2
  ELSE 1

DimPathsWithinLimit(tr, g) ==
  /\ Cardinality(DimPathEntries(tr)) <= DimPathLimit(tr, g)
  /\ Cardinality(Elements(tr.purchasedStudies)) = Len(tr.purchasedStudies)

\* C24: after any sequence of attemptBuyArray calls, with the dilation upgrade
\* fixed, the purchased dimension-path studies (71, 72, 73) are at most 1, at
\* most 2 once study 201 is purchased, at most 3 with the upgrade, and no
\* study is in purchasedStudies twice: in every state the tree reaches and
\* after one more attemptBuyArray of any array.
C24_DimPathLimit ==
  /\ DimPathsWithinLimit(tree, game)
  /\ \A studyArray \in StudyArrays :
       DimPathsWithinLimit(attemptBuyArray(tree, game, studyArray), game)

\* A tree without the upgrade that holds study 201 and two dimension paths,
\* does not check costs, and refuses the third path and a repeated study.
C24_Witness ==
  /\ ~game.timeStudySplit
  /\ ~tree.checkCosts
  /\ 201 \in Elements(tree.purchasedStudies)
  /\ Cardinality(DimPathEntries(tree)) = 2
  /\ \E third \in {71, 72, 73} :
       /\ third \notin Elements(tree.purchasedStudies)
       /\ attemptBuyArray(tree, game, <<third>>) = tree
  /\ \E held \in {71, 72, 73} :
       /\ held \in Elements(tree.purchasedStudies)
       /\ attemptBuyArray(tree, game, <<held>>) = tree

====
